---- MODULE Spec2Model ----
(***************************************************************************)
(* Model of the Option<T> class (src/eslint.config.js, lines 35-397).      *)
(*                                                                         *)
(* Option instances are objects on a heap: `heap` maps an address to the   *)
(* `value` field of the instance allocated there.  A method is an operator *)
(* over (heap, this, arguments) that yields the heap after the call, the   *)
(* returned JavaScript value, and how often each callback was invoked.     *)
(* One action per method applies the operator and records the call in the  *)
(* registers op / self / arg / inp / ret / nf / nfb, with `pre` the heap   *)
(* as it was when the method was entered.  The caller then moves on to its *)
(* next statement (Discard), which clears the registers and keeps the heap.*)
(***************************************************************************)
EXTENDS FiniteSets, Integers, Sequences, TLC

VARIABLES heap, pre, op, self, arg, inp, ret, nf, nfb

vars == <<heap, pre, op, self, arg, inp, ret, nf, nfb>>

\* ------------------------------------------------------------- bounds
\* Number of heap cells (Option instances alive in one run).
MaxObjs == 3
\* Number of defined payload values of T besides `undefined`.
NumVals == 2

\* ------------------------------------------------- JavaScript values
\* The JavaScript `undefined`: the default of the constructor's parameter
\* and of an omitted argument.
Undefined == [t |-> "undefined"]

Val(n) == [t |-> "value", n |-> n]

\* The payload type T.  T | undefined is what the field is declared as, and
\* nothing stops T itself from admitting undefined (Option<number | undefined>).
T == {Undefined} \cup {Val(n) : n \in 1..NumVals}

\* The array literal [a, b] that zip builds.
Tuple(a, b) == [t |-> "tuple", a |-> a, b |-> b]

Bool(b) == [t |-> "boolean", b |-> b]

\* An array of payloads (asSlice).
Slice(items) == [t |-> "array", items |-> items]

\* A reference to the Option instance at address a.
Ref(a) == [t |-> "ref", a |-> a]

\* Registers of a call without receiver / argument / input.
NoRef == [t |-> "noref"]

\* `throw new Error(msg)`: the call completes abruptly with an Error object.
Throw(msg) == [t |-> "throw", name |-> "Error", message |-> msg]

\* ------------------------------------------------------------ heap
Addr == 1..MaxObjs

\* A cell no instance has been allocated in.
Free == [t |-> "free"]

Live(h) == {a \in Addr : h[a] # Free}

\* At least n cells are free.  A method that can construct an instance is
\* called only while a cell is free for it.
Room(h, n) == Cardinality(Addr \ Live(h)) >= n

\* What a call yields: heap after, returned value, invocations of the
\* callback f / predicate (nf) and of the fallback callback (nfb).
Res(h, r, f, fb) == [heap |-> h, ret |-> r, nf |-> f, nfb |-> fb]

\* ------------------------------------------------------- callbacks
\* Unary callbacks (value: T) => U, with U ranging over T as well: the
\* identity, the constant functions (the one returning undefined among
\* them), and one that sends every defined value to undefined and undefined
\* to a defined value.
Fns ==
  {[x \in T |-> x]}
    \cup {[x \in T |-> c] : c \in T}
    \cup {[x \in T |-> IF x = Undefined THEN Val(1) ELSE Undefined]}

\* Predicates (value: T) => boolean: constant ones and tests for one value.
Preds ==
  {[x \in T |-> b] : b \in BOOLEAN} \cup {[x \in T |-> x = c] : c \in T}

\* Messages passed to expect.
Msgs == {"Option is None", "no value"}

\* Callbacks that return an Option: either a closure over an instance that
\* already exists (as and/or build: () => optb), or one that wraps k(value)
\* in a new instance.
Existing(a) == [kind |-> "existing", a |-> a]

Fresh(k) == [kind |-> "fresh", k |-> k]

\* ------------------------------------------------------ the class
\* constructor(value = undefined) { this.value = value; }
new_Option(h, value) ==
  LET a == CHOOSE x \in Addr : h[x] = Free /\ \A y \in Addr : y < x => h[y] # Free
  IN Res([h EXCEPT ![a] = value], Ref(a), 0, 0)

some(h, value) == new_Option(h, value)

none(h) == new_Option(h, Undefined)

\* Invocation of an Option-returning callback on v (v is ignored by a
\* closure () => optb).
invoke(h, f, v) ==
  IF f.kind = "existing" THEN Res(h, Ref(f.a), 0, 0) ELSE new_Option(h, f.k[v])

isNone(h, s) == h[s] = Undefined

isSome(h, s) == ~isNone(h, s)

exchange(h, s, value) ==
  LET optb == new_Option(h, h[s])
  IN Res([optb.heap EXCEPT ![s] = value], optb.ret, 0, 0)

isSomeAnd(h, s, predicate) ==
  IF isSome(h, s) THEN Res(h, Bool(predicate[h[s]]), 1, 0)
  ELSE Res(h, Bool(FALSE), 0, 0)

asSlice(h, s) ==
  Res(h, Slice(IF isSome(h, s) THEN <<h[s]>> ELSE <<>>), 0, 0)

\* expect without its throw: an absent receiver yields its undefined field.
expectNoThrow(h, s, msg) == Res(h, h[s], 0, 0)

expect(h, s, msg) ==
  IF isSome(h, s) THEN Res(h, h[s], 0, 0) ELSE Res(h, Throw(msg), 0, 0)

unwrap(h, s) == expect(h, s, "Option is None")

\* unwrapOrElse that evaluates f() before it tests the receiver.
unwrapOrElseEager(h, s, f) ==
  Res(h, IF isSome(h, s) THEN h[s] ELSE f, 0, 1)

\* f is the zero-argument fallback, given by the value it returns.
unwrapOrElse(h, s, f) ==
  IF isSome(h, s) THEN Res(h, h[s], 0, 0) ELSE Res(h, f, 0, 1)

unwrapOr(h, s, fallback) == unwrapOrElse(h, s, fallback)

\* map that hands back the receiver itself when it is absent.
mapNoneReturnsThis(h, s, f) ==
  IF isSome(h, s)
  THEN LET r == some(h, f[h[s]]) IN Res(r.heap, r.ret, 1, 0)
  ELSE Res(h, Ref(s), 0, 0)

map(h, s, f) ==
  IF isSome(h, s)
  THEN LET r == some(h, f[h[s]]) IN Res(r.heap, r.ret, 1, 0)
  ELSE none(h)

inspect(h, s, f) ==
  IF isSome(h, s) THEN Res(h, Ref(s), 1, 0) ELSE Res(h, Ref(s), 0, 0)

mapOrElse(h, s, fallback, f) ==
  IF isSome(h, s) THEN Res(h, f[h[s]], 1, 0) ELSE Res(h, fallback, 0, 1)

mapOr(h, s, fallback, f) == mapOrElse(h, s, fallback, f)

andThen(h, s, f) ==
  IF isSome(h, s)
  THEN LET r == invoke(h, f, h[s]) IN Res(r.heap, r.ret, 1, 0)
  ELSE none(h)

and(h, s, optb) == andThen(h, s, Existing(optb))

\* filter that empties the receiver in place when the predicate fails.
filterClears(h, s, predicate) ==
  LET t == isSomeAnd(h, s, predicate)
  IN IF t.ret.b THEN Res(h, Ref(s), t.nf, 0)
     ELSE Res([h EXCEPT ![s] = Undefined], Ref(s), t.nf, 0)

filter(h, s, predicate) ==
  LET t == isSomeAnd(h, s, predicate)
  IN IF t.ret.b THEN Res(h, Ref(s), t.nf, 0)
     ELSE LET r == none(h) IN Res(r.heap, r.ret, t.nf, 0)

orElse(h, s, f) ==
  IF isSome(h, s) THEN Res(h, Ref(s), 0, 0)
  ELSE LET r == invoke(h, f, Undefined) IN Res(r.heap, r.ret, 0, 1)

or(h, s, optb) == orElse(h, s, Existing(optb))

xor(h, s, optb) ==
  IF isSome(h, s)
  THEN (IF isNone(h, optb) THEN Res(h, Ref(s), 0, 0) ELSE none(h))
  ELSE Res(h, Ref(optb), 0, 0)

insert(h, s, value) ==
  LET h2 == [h EXCEPT ![s] = value] IN Res(h2, h2[s], 0, 0)

\* f is the zero-argument producer, given by the value it returns.
getOrInsertWith(h, s, f) ==
  IF isSome(h, s) THEN Res(h, h[s], 0, 0)
  ELSE LET r == insert(h, s, f) IN Res(r.heap, r.ret, 1, 0)

getOrInsert(h, s, value) == getOrInsertWith(h, s, value)

\* take that exchanges the held value for itself.
takeKeeps(h, s) == exchange(h, s, h[s])

take(h, s) == exchange(h, s, Undefined)

replace(h, s, value) == exchange(h, s, value)

zip(h, s, other) ==
  IF isSome(h, s) /\ isSome(h, other)
  THEN some(h, Tuple(h[s], h[other]))
  ELSE none(h)

\* ------------------------------------------------------ the machine
\* No instance exists and no call has been made.
Init ==
  /\ heap = [a \in Addr |-> Free]
  /\ pre = [a \in Addr |-> Free]
  /\ op = "idle"
  /\ self = NoRef
  /\ arg = NoRef
  /\ inp = NoRef
  /\ ret = NoRef
  /\ nf = 0
  /\ nfb = 0

\* A call of method `name` on receiver s with argument instance a and
\* input i, whose outcome is r, recorded in the registers.
Call(name, s, a, i, r) ==
  /\ op' = name
  /\ self' = s
  /\ arg' = a
  /\ inp' = i
  /\ pre' = heap
  /\ heap' = r.heap
  /\ ret' = r.ret
  /\ nf' = r.nf
  /\ nfb' = r.nfb

\* No call is recorded: the caller is between two statements.
Idle == op = "idle"

\* Instances whose payload is of type T (not the tuple type zip produces):
\* the receivers a callback over T can be passed to.
OfT(h) == {a \in Live(h) : h[a] \in T}

\* new Option(value) with the argument supplied
New ==
  /\ Idle
  /\ \E v \in T : Room(heap, 1) /\ Call("new", NoRef, NoRef, v, new_Option(heap, v))

\* new Option() with the argument omitted
NewDefault ==
  /\ Idle
  /\ Room(heap, 1) /\ Call("newDefault", NoRef, NoRef, NoRef, new_Option(heap, Undefined))

Some ==
  /\ Idle
  /\ \E v \in T : Room(heap, 1) /\ Call("some", NoRef, NoRef, v, some(heap, v))

None ==
  /\ Idle
  /\ Room(heap, 1) /\ Call("none", NoRef, NoRef, NoRef, none(heap))

IsSome ==
  /\ Idle
  /\ \E s \in Live(heap) :
       Call("isSome", Ref(s), NoRef, NoRef, Res(heap, Bool(isSome(heap, s)), 0, 0))

IsNone ==
  /\ Idle
  /\ \E s \in Live(heap) :
       Call("isNone", Ref(s), NoRef, NoRef, Res(heap, Bool(isNone(heap, s)), 0, 0))

IsSomeAnd ==
  /\ Idle
  /\ \E s \in OfT(heap), p \in Preds :
       Call("isSomeAnd", Ref(s), NoRef, p, isSomeAnd(heap, s, p))

AsSlice ==
  /\ Idle
  /\ \E s \in Live(heap) : Call("asSlice", Ref(s), NoRef, NoRef, asSlice(heap, s))

Expect ==
  /\ Idle
  /\ \E s \in Live(heap), m \in Msgs :
       Call("expect", Ref(s), NoRef, m, expect(heap, s, m))

Unwrap ==
  /\ Idle
  /\ \E s \in Live(heap) : Call("unwrap", Ref(s), NoRef, NoRef, unwrap(heap, s))

UnwrapOr ==
  /\ Idle
  /\ \E s \in OfT(heap), v \in T :
       Call("unwrapOr", Ref(s), NoRef, v, unwrapOr(heap, s, v))

UnwrapOrElse ==
  /\ Idle
  /\ \E s \in OfT(heap), v \in T :
       Call("unwrapOrElse", Ref(s), NoRef, v, unwrapOrElse(heap, s, v))

Map ==
  /\ Idle
  /\ \E s \in OfT(heap), f \in Fns :
       Room(heap, 1) /\ Call("map", Ref(s), NoRef, f, map(heap, s, f))

Inspect ==
  /\ Idle
  /\ \E s \in OfT(heap), f \in Fns :
       Call("inspect", Ref(s), NoRef, f, inspect(heap, s, f))

MapOr ==
  /\ Idle
  /\ \E s \in OfT(heap), v \in T, f \in Fns :
       Call("mapOr", Ref(s), NoRef, [fallback |-> v, f |-> f], mapOr(heap, s, v, f))

MapOrElse ==
  /\ Idle
  /\ \E s \in OfT(heap), v \in T, f \in Fns :
       Call("mapOrElse", Ref(s), NoRef, [fallback |-> v, f |-> f],
            mapOrElse(heap, s, v, f))

And ==
  /\ Idle
  /\ \E s \in Live(heap), o \in Live(heap) :
       Room(heap, 1) /\ Call("and", Ref(s), Ref(o), NoRef, and(heap, s, o))

AndThen ==
  /\ Idle
  /\ \E s \in OfT(heap), f \in {Fresh(k) : k \in Fns} \cup {Existing(a) : a \in Live(heap)} :
       Room(heap, 1) /\ Call("andThen", Ref(s), NoRef, f, andThen(heap, s, f))

Filter ==
  /\ Idle
  /\ \E s \in OfT(heap), p \in Preds :
       Room(heap, 1) /\ Call("filter", Ref(s), NoRef, p, filter(heap, s, p))

Or ==
  /\ Idle
  /\ \E s \in Live(heap), o \in Live(heap) :
       Call("or", Ref(s), Ref(o), NoRef, or(heap, s, o))

OrElse ==
  /\ Idle
  /\ \E s \in OfT(heap), f \in {Fresh([x \in T |-> v]) : v \in T} \cup {Existing(a) : a \in Live(heap)} :
       Room(heap, 1) /\ Call("orElse", Ref(s), NoRef, f, orElse(heap, s, f))

Xor ==
  /\ Idle
  /\ \E s \in Live(heap), o \in Live(heap) :
       Room(heap, 1) /\ Call("xor", Ref(s), Ref(o), NoRef, xor(heap, s, o))

Insert ==
  /\ Idle
  /\ \E s \in OfT(heap), v \in T :
       Call("insert", Ref(s), NoRef, v, insert(heap, s, v))

GetOrInsert ==
  /\ Idle
  /\ \E s \in OfT(heap), v \in T :
       Call("getOrInsert", Ref(s), NoRef, v, getOrInsert(heap, s, v))

GetOrInsertWith ==
  /\ Idle
  /\ \E s \in OfT(heap), v \in T :
       Call("getOrInsertWith", Ref(s), NoRef, v, getOrInsertWith(heap, s, v))

Take ==
  /\ Idle
  /\ \E s \in Live(heap) :
       Room(heap, 1) /\ Call("take", Ref(s), NoRef, NoRef, take(heap, s))

Replace ==
  /\ Idle
  /\ \E s \in OfT(heap), v \in T :
       Room(heap, 1) /\ Call("replace", Ref(s), NoRef, v, replace(heap, s, v))

Zip ==
  /\ Idle
  /\ \E s \in OfT(heap), o \in OfT(heap) :
       Room(heap, 1) /\ Call("zip", Ref(s), Ref(o), NoRef, zip(heap, s, o))

\* The caller is done with the completed call: its registers are cleared,
\* every instance stays as the call left it.
Discard ==
  /\ op # "idle"
  /\ op' = "idle"
  /\ self' = NoRef
  /\ arg' = NoRef
  /\ inp' = NoRef
  /\ ret' = NoRef
  /\ nf' = 0
  /\ nfb' = 0
  /\ pre' = heap
  /\ UNCHANGED heap

Next ==
  \/ New \/ NewDefault \/ Some \/ None
  \/ IsSome \/ IsNone \/ IsSomeAnd \/ AsSlice
  \/ Expect \/ Unwrap \/ UnwrapOr \/ UnwrapOrElse
  \/ Map \/ Inspect \/ MapOr \/ MapOrElse
  \/ And \/ AndThen \/ Filter \/ Or \/ OrElse \/ Xor
  \/ Insert \/ GetOrInsert \/ GetOrInsertWith \/ Take \/ Replace
  \/ Zip
  \/ Discard

Spec == Init /\ [][Next]_vars

\* ------------------------------------------------------ vocabulary
\* The methods that assign this.value.
Mutators == {"take", "replace", "insert", "getOrInsert", "getOrInsertWith"}

\* The methods that hand back an Option built from the receiver.
Transforms == {"map", "and", "andThen", "filter", "or", "orElse", "xor", "zip"}

\* Every other method of an instance.
ReadOps ==
  {"isSome", "isNone", "isSomeAnd", "asSlice", "expect", "unwrap", "unwrapOr",
   "unwrapOrElse", "inspect", "mapOr", "mapOrElse"} \cup Transforms

\* The heaps one mutating call on the instance at a can leave behind (take
\* and replace allocate the instance they return, so they need a free cell).
MutationsOf(h, a) ==
  {insert(h, a, v).heap : v \in T}
    \cup {getOrInsert(h, a, v).heap : v \in T}
    \cup {getOrInsertWith(h, a, v).heap : v \in T}
    \cup (IF Room(h, 1)
          THEN {take(h, a).heap} \cup {replace(h, a, v).heap : v \in T}
          ELSE {})

\* The completed call returned an instance that did not exist before it.
RetIsNew == ret.t = "ref" /\ ret.a \notin Live(pre)

\* ------------------------------------------------------------- C1
\* C1: for every value v of T, the value undefined included when T admits
\* it, the instance built by Option.some(v) or new Option(v) answers
\* isSome() with true, isNone() with false, and unwrap() returns v.
C1_PresentFactoryIsSome ==
  op \in {"some", "new"} =>
    /\ isSome(heap, ret.a)
    /\ ~isNone(heap, ret.a)
    /\ unwrap(heap, ret.a).ret = inp

\* ------------------------------------------------------------- C2
\* C2: expect(msg) and unwrap() throw exactly when the receiver held no
\* value on entry; otherwise they return the held value.  The thrown Error
\* carries msg for expect and "Option is None" for unwrap, the failed (and
\* the successful) call leaves every instance as it was, and no other method
\* throws.
C2_ExpectUnwrapFailIffAbsent ==
  /\ op = "expect" =>
       /\ (ret.t = "throw") <=> (pre[self.a] = Undefined)
       /\ pre[self.a] = Undefined => ret = [t |-> "throw", name |-> "Error", message |-> inp]
       /\ pre[self.a] # Undefined => ret = pre[self.a]
       /\ heap = pre
  /\ op = "unwrap" =>
       /\ (ret.t = "throw") <=> (pre[self.a] = Undefined)
       /\ pre[self.a] = Undefined =>
            ret = [t |-> "throw", name |-> "Error", message |-> "Option is None"]
       /\ pre[self.a] # Undefined => ret = pre[self.a]
       /\ heap = pre
  /\ op \notin {"expect", "unwrap"} => ret.t # "throw"

\* An expect with the caller's own message has thrown on an absent receiver.
C2_Witness ==
  /\ op = "expect"
  /\ pre[self.a] = Undefined
  /\ inp = "no value"
  /\ ret.t = "throw"

\* ------------------------------------------------------------- C3
\* C3: take() leaves the receiver absent and returns a new instance holding
\* what the receiver held on entry: present with v if it held v (and unwrap()
\* on the receiver then throws), absent if it was absent; a further take() on
\* the still absent receiver again returns a new absent instance, throws
\* nothing and leaves the receiver absent.
C3_TakeLeavesAbsent ==
  op = "take" =>
    /\ heap[self.a] = Undefined
    /\ RetIsNew
    /\ heap[ret.a] = pre[self.a]
    /\ \A a \in Live(pre) \ {self.a} : heap[a] = pre[a]
    /\ unwrap(heap, self.a).ret.t = "throw"
    /\ Room(heap, 1) =>
         LET again == take(heap, self.a)
         IN /\ again.ret.t = "ref"
            /\ again.ret.a \notin Live(heap)
            /\ again.heap[again.ret.a] = Undefined
            /\ again.heap[self.a] = Undefined

\* take() has run on a receiver that held a defined value.
C3_Witness ==
  /\ op = "take"
  /\ pre[self.a] = Val(1)
  /\ heap[ret.a] = Val(1)
  /\ Room(heap, 1)

\* ------------------------------------------------------------- C4
\* C4: for every value v2 of T and every prior state, replace(v2) leaves the
\* receiver present holding v2 (isSome() true, unwrap() returns v2) and
\* returns a new instance holding what the receiver held on entry.
C4_ReplaceLeavesPresent ==
  op = "replace" =>
    /\ isSome(heap, self.a)
    /\ unwrap(heap, self.a).ret = inp
    /\ RetIsNew
    /\ heap[ret.a] = pre[self.a]

\* ------------------------------------------------------------- C5
\* C5: getOrInsertWith(f) on a present receiver does not invoke f, returns
\* the held value and changes nothing; on an absent receiver it invokes f
\* once, stores the result r so that the receiver is present holding r
\* afterwards, and returns r.  getOrInsert(value) does what
\* getOrInsertWith(() => value) does.
C5_GetOrInsertWith ==
  /\ op \in {"getOrInsertWith", "getOrInsert"} =>
       /\ pre[self.a] # Undefined => nf = 0 /\ ret = pre[self.a] /\ heap = pre
       /\ pre[self.a] = Undefined =>
            /\ nf = 1
            /\ ret = inp
            /\ isSome(heap, self.a)
            /\ heap = [pre EXCEPT ![self.a] = inp]
  /\ op = "getOrInsert" =>
       LET with == getOrInsertWith(pre, self.a, inp)
       IN heap = with.heap /\ ret = with.ret /\ nf = with.nf

\* ------------------------------------------------------------- C6
\* C6: functor composition.  For a container c and callbacks f and g,
\* c.map(f).map(g) and c.map(x => g(f(x))) are in the same state: both
\* absent, or both present with the same value.  (Checked in the state that
\* c.map(f) has produced, for every g.)
C6_FunctorComposition ==
  (op = "map" /\ Room(heap, 1)) =>
    \A g \in Fns :
      LET lhs == map(heap, ret.a, g)
          rhs == map(heap, self.a, [x \in T |-> g[inp[x]]])
      IN lhs.heap[lhs.ret.a] = rhs.heap[rhs.ret.a]

\* ------------------------------------------------------------- C7
\* C7: monad left identity.  For every value v of T and every callback f
\* that returns an Option, Option.some(v).andThen(f) is in the same state
\* as f(v), and f has been invoked exactly once.  (Checked in the state that
\* Option.some(v) has produced, for every f.)
C7_MonadLeftIdentity ==
  (op = "some" /\ Room(heap, 1)) =>
    \A f \in {Fresh(k) : k \in Fns} \cup {Existing(a) : a \in Live(heap)} :
      LET lhs == andThen(heap, ret.a, f)
          rhs == invoke(heap, f, inp)
      IN /\ lhs.heap[lhs.ret.a] = rhs.heap[rhs.ret.a]
         /\ lhs.nf = 1

\* ------------------------------------------------------------- C8
\* C8: unwrapOrElse(f) and orElse(f) invoke f once when the receiver is
\* absent, and return what f returned; they do not invoke it when the
\* receiver is present, and return the held value, respectively the receiver.
\* mapOrElse(fallback, f) invokes exactly one of the two, once: f on the held
\* value when present, fallback when absent, and returns its result.
C8_LazyFallbacks ==
  /\ op = "unwrapOrElse" =>
       IF pre[self.a] = Undefined
       THEN nfb = 1 /\ ret = inp
       ELSE nfb = 0 /\ ret = pre[self.a]
  /\ op = "orElse" =>
       IF pre[self.a] = Undefined
       THEN /\ nfb = 1
            /\ inp.kind = "existing" => ret = Ref(inp.a)
            /\ inp.kind = "fresh" => RetIsNew /\ heap[ret.a] = inp.k[Undefined]
       ELSE nfb = 0 /\ ret = self /\ heap = pre
  /\ op = "mapOrElse" =>
       IF pre[self.a] = Undefined
       THEN nf = 0 /\ nfb = 1 /\ ret = inp.fallback
       ELSE nf = 1 /\ nfb = 0 /\ ret = inp.f[pre[self.a]]

\* unwrapOrElse has run on a present receiver with a fallback that would
\* have returned something else.
C8_Witness ==
  /\ op = "unwrapOrElse"
  /\ pre[self.a] = Val(1)
  /\ inp = Val(2)
  /\ nfb = 0

\* ------------------------------------------------------------- C9
\* C9: only take, replace, insert, getOrInsert and getOrInsertWith change an
\* instance.  After any other method every instance that existed on entry,
\* receiver and argument among them, holds what it held on entry.  asSlice
\* returns the one-element array of the held value when present and the
\* empty array when absent, and a second asSlice returns the same array.
C9_ReadOnlyFrame ==
  /\ op \notin Mutators => \A a \in Live(pre) : heap[a] = pre[a]
  /\ op = "asSlice" =>
       /\ ret.t = "array"
       /\ pre[self.a] # Undefined => ret.items = <<pre[self.a]>>
       /\ pre[self.a] = Undefined => Len(ret.items) = 0
       /\ asSlice(heap, self.a).ret = ret

\* filter has run on a present receiver whose value fails the predicate.
C9_Witness ==
  /\ op = "filter"
  /\ pre[self.a] = Val(1)
  /\ ~inp[Val(1)]
  /\ nf = 1

====
